---- MODULE Spec2Model ----
(***************************************************************************)
(* Inter-rater reliability notebooks of the thesis repository.             *)
(*                                                                         *)
(*   human notebook : src/2. human_inter_rater_agreement/                  *)
(*                        human_agreement.ipynb            (R)             *)
(*   llm notebook   : src/3. LLM_evaluation_pipeline/                      *)
(*                        1.IRR_with_LLM_judge.ipynb       (R)             *)
(*                                                                         *)
(* A notebook is a sequential program: its cells run top to bottom over    *)
(* the data frames read from the survey sheets.  The sheets are the input; *)
(* Init draws them from bounded sets and every cell is one action.         *)
(*                                                                         *)
(* Numbers.  R computes in doubles; the model computes the same            *)
(* expressions over exact rationals, a value being the reduced pair        *)
(* <<numerator, denominator>> with denominator > 0, so that equal values   *)
(* are equal tuples.  A missing number (NA_real_, NaN) is the pair <<0, 0>>,*)
(* a missing rating (NA after as.numeric) the integer NA_integer.          *)
(***************************************************************************)
EXTENDS Integers, Sequences, FiniteSets, TLC

VARIABLES
    nb,                     \* the notebook the kernel runs: "human", "llm", or "none"
    pc,                     \* the next cell to run
    df_dutch,               \* data frame of the Dutch sheet (sequence of rows)
    df_english,             \* data frame of the English sheet
    df_combined,            \* bind_rows(df_dutch, df_english)
    results_dutch,          \* llm notebook: summary of df_dutch, one row per group
    results_combined,       \* summary of df_combined
    basic_agreement_results,\* human notebook: summary by language and ResponseId
    rationale_table,        \* llm notebook: the printed decision rationale table
    cmp_in,                 \* comparator harness: one row of metrics
    cmp_out,                \* comparator harness: the three winner labels
    bin_in,                 \* binarize harness: a vector of ratings
    bin_out,                \* binarize harness: the two notebooks' results
    results_english,        \* llm notebook: summary of df_english
    call_fn,                \* function harness: the function called, or "none"
    call_args,              \* function harness: <<its arguments>>
    call_ret,               \* function harness: <<its result>> once it has returned
    agent_pc,               \* agent: the statement run_agent_task / run_agent is at
    example,                \* agent: the input of the dataset example, if any
    stdout,                 \* agent: the values printed by run_agent_task
    messages,               \* agent: run_agent's messages, a str or a list
    response,               \* agent: the message of the last model response, if any
    model_calls,            \* agent: the number of chat completion calls made
    ret,                    \* agent: the conversation run_agent returned, if it has
    dataset,                \* experiment: the inputs of the uploaded examples
    exp_pc,                 \* experiment: the phase of run_experiment
    exp_outputs,            \* experiment: per example, the output of its task run
    exp_scores,             \* experiment: per example, the evaluator's score
    classify_calls          \* experiment: the number of llm_classify calls made

pipeVars == <<nb, pc, df_dutch, df_english, df_combined, results_dutch,
              results_combined, basic_agreement_results, rationale_table,
              results_english>>
cmpVars == <<cmp_in, cmp_out>>
binVars == <<bin_in, bin_out>>
callVars == <<call_fn, call_args, call_ret>>
agentVars == <<agent_pc, example, stdout, messages, response, model_calls, ret>>
expVars == <<dataset, exp_pc, exp_outputs, exp_scores, classify_calls>>
vars == <<pipeVars, cmpVars, binVars, callVars, agentVars, expVars>>

-----------------------------------------------------------------------------
(* Bounds of the model.                                                    *)

\* human notebook: rows of the Dutch and the English sheet together
MaxRows == 3
\* llm notebook: rows of the Dutch and the English sheet together
MaxItems == 2
\* binarize harness: length of the rating vector
MaxLen == 3
\* comparator harness: the metrics are the multiples of 1/CmpDen in [-1, 1]
CmpDen == 2
\* pooled analysis: rows of the Dutch and the English sheet together
MaxPool == 4
\* experiment: the examples of the dataset are at most MaxExamples
MaxExamples == 3
\* agent: chat completion calls of one run_agent call
MaxCalls == 3
\* agent: tool calls of one model response
MaxToolCalls == 2
\* agent: messages of a conversation handed to run_agent
MaxInput == 2
\* sample size estimator: the numbers of raters are 1..MaxRaters
MaxRaters == 3

\* as.numeric() of an empty or non-numeric cell: a missing rating
NA_integer == -1
\* a missing number: NA_real_, and NaN (0/0), for which is.na() is TRUE too
NA_real == <<0, 0>>
is_na(x) == x = NA_real
\* the 5-point Likert scale of the surveys
Likert == 1..5
\* The metrics read a rating only through binarize.  The human sheets carry
\* one rating below the threshold and two different ones at or above it; the
\* llm sheets one on each side.
SurveyRatings == {2, 3, 4}
JudgedRatings == {2, 3}
\* the job listings of the model (the sheets have eight)
ResponseIds == {1, 2}

-----------------------------------------------------------------------------
(* Exact arithmetic.                                                       *)

Abs(n) == IF n < 0 THEN -n ELSE n

RECURSIVE GCD(_, _)
GCD(a, b) == IF b = 0 THEN a ELSE GCD(b, a % b)

\* the reduced fraction n/d, d > 0
Rat(n, d) ==
    LET g == GCD(Abs(n), d)
    IN  <<n \div g, d \div g>>

\* arithmetic on doubles: a missing operand gives a missing result
RAdd(x, y) ==
    IF is_na(x) \/ is_na(y) THEN NA_real
    ELSE Rat(x[1] * y[2] + y[1] * x[2], x[2] * y[2])
RSub(x, y) ==
    IF is_na(x) \/ is_na(y) THEN NA_real
    ELSE Rat(x[1] * y[2] - y[1] * x[2], x[2] * y[2])
RMul(x, y) ==
    IF is_na(x) \/ is_na(y) THEN NA_real
    ELSE Rat(x[1] * y[1], x[2] * y[2])
\* x / y; 0 / 0 is NaN (the notebooks never divide a non-zero number by zero)
RDiv(x, y) ==
    IF is_na(x) \/ is_na(y) \/ y[1] = 0 THEN NA_real
    ELSE IF y[1] > 0 THEN Rat(x[1] * y[2], x[2] * y[1])
    ELSE Rat(-(x[1] * y[2]), x[2] * (-y[1]))
RLt(x, y) == x[1] * y[2] < y[1] * x[2]
RAbs(x) == <<Abs(x[1]), x[2]>>
RInt(n) == <<n, 1>>

RECURSIVE SeqSum(_)
SeqSum(s) == IF s = <<>> THEN 0 ELSE Head(s) + SeqSum(Tail(s))

RECURSIVE RSeqSum(_)
RSeqSum(s) == IF s = <<>> THEN RInt(0) ELSE RAdd(Head(s), RSeqSum(Tail(s)))

\* R mean(v) of an integer (0/1, logical) vector: NA if an element is
\* missing, NaN for the empty vector
mean(v) ==
    IF v = <<>> \/ \E i \in DOMAIN v : v[i] = NA_integer THEN NA_real
    ELSE Rat(SeqSum(v), Len(v))

\* R mean(v, na.rm = TRUE) of an integer (logical) vector
mean_na_rm(v) == mean(SelectSeq(v, LAMBDA e : e # NA_integer))

\* R mean(c(...), na.rm = TRUE) of a vector of numbers: NaN if none is left
mean_num_na_rm(v) ==
    LET w == SelectSeq(v, LAMBDA e : ~is_na(e))
    IN  IF w = <<>> THEN NA_real ELSE RDiv(RSeqSum(w), RInt(Len(w)))

\* R r1 == r2, element by element: 1 for TRUE, 0 for FALSE, NA if either is NA
VecEq(r1, r2) ==
    [i \in DOMAIN r1 |->
        IF r1[i] = NA_integer \/ r2[i] = NA_integer THEN NA_integer
        ELSE IF r1[i] = r2[i] THEN 1 ELSE 0]

\* a column of a data frame
Col(df, name) == [i \in DOMAIN df |-> df[i][name]]

-----------------------------------------------------------------------------
(* llm notebook: 1.IRR_with_LLM_judge.ipynb                                *)

\* binarize <- function(x) ifelse(x >= 3, 1, 0), on a vector
binarize(x) ==
    [i \in DOMAIN x |->
        IF x[i] = NA_integer THEN NA_integer
        ELSE IF x[i] >= 3 THEN 1 ELSE 0]

\* raw_agreement <- function(rater1, rater2)
raw_agreement(rater1, rater2) ==
    IF Len(rater1) # Len(rater2) THEN NA_real
    ELSE mean_na_rm(VecEq(rater1, rater2))

\* the categories two complete rating vectors use
Categories(r1, r2) == {r1[i] : i \in DOMAIN r1} \cup {r2[i] : i \in DOMAIN r2}

\* the share of the two raters' ratings that fall in category k
CategoryShare(r1, r2, k) ==
    RDiv(RAdd(mean(VecEq(r1, [i \in DOMAIN r1 |-> k])),
              mean(VecEq(r2, [i \in DOMAIN r2 |-> k]))), RInt(2))

\* gwet.ac1.raw(data.frame(r1, r2))$est$coeff.val of irrCAC, for two raters
\* and complete ratings: (pa - pe) / (1 - pe), pa the observed agreement and
\* pe = sum_k pi_k (1 - pi_k) / (q - 1) over the q categories in use; with a
\* single category in use pe is 1e-15 and the coefficient is 1.
gwet_ac1_raw(r1, r2) ==
    LET pa == mean(VecEq(r1, r2))
        cats == Categories(r1, r2)
        q == Cardinality(cats)
        pi1 == CategoryShare(r1, r2, 1)
        \* both categories 0 and 1 in use: pi_0 = 1 - pi_1
        pe == RMul(RInt(2), RMul(pi1, RSub(RInt(1), pi1)))
    IN  IF q >= 2 THEN RDiv(RSub(pa, pe), RSub(RInt(1), pe))
        ELSE RInt(1)

\* kappa2(data.frame(r1, r2), "unweighted")$value of irr, complete ratings:
\* (po - pc) / (1 - pc), pc the agreement expected from the two raters'
\* marginals; NaN when both raters use one and the same category throughout
kappa2(r1, r2) ==
    LET po == mean(VecEq(r1, r2))
        p1 == mean(r1)
        p2 == mean(r2)
        pc_ == RAdd(RMul(p1, p2),
                    RMul(RSub(RInt(1), p1), RSub(RInt(1), p2)))
    IN  RDiv(RSub(po, pc_), RSub(RInt(1), pc_))

\* every group given all rows of the frame (the grouping lost)
GroupRows_ungrouped(df, group_var, k) == df

\* group_by(!!sym(group_var)): the distinct keys of the frame
GroupKeys(df, group_var) == {df[i][group_var] : i \in DOMAIN df}

\* the rows of one group, in the frame's order
GroupRows(df, group_var, k) == SelectSeq(df, LAMBDA r : r[group_var] = k)

\* summarise() returns the groups in ascending key order
RECURSIVE SortedKeys(_)
SortedKeys(S) ==
    IF S = {} THEN <<>>
    ELSE LET m == CHOOSE x \in S : \A y \in S : x <= y
         IN  <<m>> \o SortedKeys(S \ {m})

\* a tie in AC1 given to OpenAI (>= in place of >)
best_llm_by_agreement_ge(ac1_openai, ac1_claude) ==
    IF is_na(ac1_openai) /\ is_na(ac1_claude) THEN "Tie (both NA)"
    ELSE IF is_na(ac1_openai) THEN "Claude"
    ELSE IF is_na(ac1_claude) THEN "OpenAI"
    ELSE IF ~RLt(ac1_openai, ac1_claude) THEN "OpenAI"
    ELSE "Claude"

\* the missing judge named the winner
best_llm_by_agreement_na_swapped(ac1_openai, ac1_claude) ==
    IF is_na(ac1_openai) /\ is_na(ac1_claude) THEN "Tie (both NA)"
    ELSE IF is_na(ac1_openai) THEN "OpenAI"
    ELSE IF is_na(ac1_claude) THEN "Claude"
    ELSE IF RLt(ac1_claude, ac1_openai) THEN "OpenAI"
    ELSE IF RLt(ac1_openai, ac1_claude) THEN "Claude"
    ELSE "Tie"

\* best_llm_by_agreement = case_when(...)
best_llm_by_agreement(ac1_openai, ac1_claude) ==
    IF is_na(ac1_openai) /\ is_na(ac1_claude) THEN "Tie (both NA)"
    ELSE IF is_na(ac1_openai) THEN "Claude"
    ELSE IF is_na(ac1_claude) THEN "OpenAI"
    ELSE IF RLt(ac1_claude, ac1_openai) THEN "OpenAI"
    ELSE IF RLt(ac1_openai, ac1_claude) THEN "Claude"
    ELSE "Tie"

\* the biases compared with their signs
best_llm_by_bias_signed(bias_openai, bias_claude) ==
    IF is_na(bias_openai) /\ is_na(bias_claude) THEN "Tie (both NA)"
    ELSE IF is_na(bias_openai) THEN "Claude"
    ELSE IF is_na(bias_claude) THEN "OpenAI"
    ELSE IF RLt(bias_openai, bias_claude) THEN "OpenAI"
    ELSE IF RLt(bias_claude, bias_openai) THEN "Claude"
    ELSE "Tie"

\* best_llm_by_bias = case_when(...)
best_llm_by_bias(bias_openai, bias_claude) ==
    IF is_na(bias_openai) /\ is_na(bias_claude) THEN "Tie (both NA)"
    ELSE IF is_na(bias_openai) THEN "Claude"
    ELSE IF is_na(bias_claude) THEN "OpenAI"
    ELSE IF RLt(RAbs(bias_openai), RAbs(bias_claude)) THEN "OpenAI"
    ELSE IF RLt(RAbs(bias_claude), RAbs(bias_openai)) THEN "Claude"
    ELSE "Tie"

\* an exact match in place of the substring search
grepl_Tie_exact(label) == label = "Tie"

\* grepl("Tie", label) over the labels the two case_when above produce:
\* "Tie" is a substring of "Tie" and of "Tie (both NA)" only
grepl_Tie(label) == label \in {"Tie", "Tie (both NA)"}

\* best_llm_overall = case_when(...)
best_llm_overall(by_agreement, by_bias) ==
    IF by_agreement = by_bias /\ ~grepl_Tie(by_agreement) THEN by_agreement
    ELSE IF grepl_Tie(by_agreement) /\ grepl_Tie(by_bias) THEN "Tie"
    ELSE IF grepl_Tie(by_agreement) /\ ~grepl_Tie(by_bias) THEN by_bias
    ELSE IF ~grepl_Tie(by_agreement) /\ grepl_Tie(by_bias) THEN by_agreement
    ELSE "Tie"

\* the average of a judge's coefficients against rater1 and against rater2
ac1_vs_average_humans(g, judge) ==
    mean_num_na_rm(<<
        gwet_ac1_raw(binarize(Col(g, "rater1")), binarize(Col(g, judge))),
        gwet_ac1_raw(binarize(Col(g, "rater2")), binarize(Col(g, judge)))>>)

\* the judge's agreement with one averaged human rating, (rater1 + rater2) / 2
raw_agreement_vs_averaged_human(g, judge) ==
    raw_agreement([i \in DOMAIN g |->
                      IF g[i].rater1 + g[i].rater2 >= 6 THEN 1 ELSE 0],
                  binarize(Col(g, judge)))

raw_agreement_vs_average_humans(g, judge) ==
    mean_num_na_rm(<<
        raw_agreement(binarize(Col(g, "rater1")), binarize(Col(g, judge))),
        raw_agreement(binarize(Col(g, "rater2")), binarize(Col(g, judge)))>>)

\* the judge's accept rate minus the humans' (operands exchanged)
bias_vs_average_humans_reversed(g, judge) ==
    RSub(mean(binarize(Col(g, judge))),
         RDiv(RAdd(mean(binarize(Col(g, "rater1"))),
                   mean(binarize(Col(g, "rater2")))), RInt(2)))

bias_vs_average_humans(g, judge) ==
    RSub(RDiv(RAdd(mean(binarize(Col(g, "rater1"))),
                   mean(binarize(Col(g, "rater2")))), RInt(2)),
         mean(binarize(Col(g, judge))))

\* one row of calculate_ac1_metrics: the summarise() expressions over the
\* rows g of the group with key k.  (sample_size_openai_vs_humans is the
\* result of kappaSize.ac1, a function the repository does not define; no
\* other column reads it and the model leaves it out.)
ac1_metrics_row(k, g) ==
    LET r1 == binarize(Col(g, "rater1"))
        r2 == binarize(Col(g, "rater2"))
        oa == binarize(Col(g, "LLM_judge_openai"))
        cl == binarize(Col(g, "LLM_judge_claude"))
        ac1_o == ac1_vs_average_humans(g, "LLM_judge_openai")
        ac1_c == ac1_vs_average_humans(g, "LLM_judge_claude")
        bias_o == bias_vs_average_humans(g, "LLM_judge_openai")
        bias_c == bias_vs_average_humans(g, "LLM_judge_claude")
        by_agr == best_llm_by_agreement(ac1_o, ac1_c)
        by_bias == best_llm_by_bias(bias_o, bias_c)
    IN  [ResponseId |-> k,
         ac1_humans |-> gwet_ac1_raw(r1, r2),
         raw_agreement_humans |-> raw_agreement(r1, r2),
         ac1_openai_vs_average_humans |-> ac1_o,
         raw_agreement_openai_vs_average_humans |->
             raw_agreement_vs_average_humans(g, "LLM_judge_openai"),
         bias_openai_vs_average_humans |-> bias_o,
         ac1_claude_vs_average_humans |-> ac1_c,
         raw_agreement_claude_vs_average_humans |->
             raw_agreement_vs_average_humans(g, "LLM_judge_claude"),
         bias_claude_vs_average_humans |-> bias_c,
         ac1_openai_vs_claude |-> gwet_ac1_raw(oa, cl),
         raw_agreement_openai_vs_claude |-> raw_agreement(oa, cl),
         bias_openai_vs_claude |-> RSub(mean(oa), mean(cl)),
         best_llm_by_agreement |-> by_agr,
         best_llm_by_bias |-> by_bias,
         best_llm_overall |-> best_llm_overall(by_agr, by_bias)]

\* calculate_ac1_metrics <- function(df, group_var)
calculate_ac1_metrics(df, group_var) ==
    LET keys == SortedKeys(GroupKeys(df, group_var))
    IN  [j \in DOMAIN keys |->
            ac1_metrics_row(keys[j], GroupRows(df, group_var, keys[j]))]

\* one row of the llm notebook's calculate_all_metrics
all_metrics_row(k, g) ==
    LET r1 == binarize(Col(g, "rater1"))
        r2 == binarize(Col(g, "rater2"))
    IN  [ResponseId |-> k,
         prevalence |-> RDiv(RAdd(mean(r1), mean(r2)), RInt(2)),
         pabak |-> RSub(RMul(RInt(2), mean(VecEq(r1, r2))), RInt(1)),
         cohens_kappa |-> kappa2(r1, r2),
         gwet_ac1 |-> gwet_ac1_raw(r1, r2)]

\* calculate_all_metrics <- function(df, group_var), llm notebook
calculate_all_metrics(df, group_var) ==
    LET keys == SortedKeys(GroupKeys(df, group_var))
    IN  [j \in DOMAIN keys |->
            all_metrics_row(keys[j], GroupRows(df, group_var, keys[j]))]

\* round(x, 2), as kable(digits = 2) prints a number: to the nearest
\* hundredth, an exact tie going to the even one
Round2(x) ==
    IF is_na(x) THEN NA_real
    ELSE LET n == x[1] * 100
             d == x[2]
             fl == n \div d
             rem2 == 2 * (n - fl * d)
             r == IF rem2 < d THEN fl
                  ELSE IF rem2 > d THEN fl + 1
                  ELSE IF fl % 2 = 0 THEN fl ELSE fl + 1
         IN  Rat(r, 100)

\* one printed row of "LLM Performance Comparison and Decision Rationale
\* (Raw Agreement)": mutate(abs_bias_...), select(...), kable(digits = 2)
rationale_row(r) ==
    [Response_ID |-> r.ResponseId,
     OpenAI_Raw_Agreement |-> Round2(r.raw_agreement_openai_vs_average_humans),
     Claude_Raw_Agreement |-> Round2(r.raw_agreement_claude_vs_average_humans),
     OpenAI_abs_Bias |-> Round2(RAbs(r.bias_openai_vs_average_humans)),
     Claude_abs_Bias |-> Round2(RAbs(r.bias_claude_vs_average_humans)),
     Agreement_Winner |-> r.best_llm_by_agreement,
     Bias_Winner |-> r.best_llm_by_bias,
     Overall_Winner |-> r.best_llm_overall]

-----------------------------------------------------------------------------
(* human notebook: human_agreement.ipynb                                   *)

\* the threshold taken strictly
H_binarize_strict(x) ==
    [i \in DOMAIN x |->
        IF x[i] = NA_integer THEN NA_integer
        ELSE IF x[i] > 3 THEN 1 ELSE 0]

\* binarize <- function(x) ifelse(x >= 3, 1, 0), on a vector
H_binarize(x) ==
    [i \in DOMAIN x |->
        IF x[i] = NA_integer THEN NA_integer
        ELSE IF x[i] >= 3 THEN 1 ELSE 0]

\* the agreement taken over the ratings as given, not over their classes
calculate_basic_agreement_likert(r1, r2) ==
    LET prevalence_r1 == mean(H_binarize(r1))
        prevalence_r2 == mean(H_binarize(r2))
    IN  [raw_agreement |-> mean(VecEq(r1, r2)),
         bias_index |-> RAbs(RSub(prevalence_r1, prevalence_r2))]

\* the difference of the prevalences with its sign (abs() left out)
calculate_basic_agreement_signed(r1, r2) ==
    LET r1_bin == H_binarize(r1)
        r2_bin == H_binarize(r2)
    IN  [raw_agreement |-> mean(VecEq(r1_bin, r2_bin)),
         bias_index |-> RSub(mean(r1_bin), mean(r2_bin))]

\* calculate_basic_agreement_simplified <- function(r1, r2)
calculate_basic_agreement_simplified(r1, r2) ==
    LET r1_bin == H_binarize(r1)
        r2_bin == H_binarize(r2)
        prevalence_r1 == mean(r1_bin)
        prevalence_r2 == mean(r2_bin)
    IN  [raw_agreement |-> mean(VecEq(r1_bin, r2_bin)),
         bias_index |-> RAbs(RSub(prevalence_r1, prevalence_r2))]

\* mutate(language = ...)
mutate_language(df, lang) ==
    [i \in DOMAIN df |->
        [ResponseId |-> df[i].ResponseId, rater1 |-> df[i].rater1,
         rater2 |-> df[i].rater2, language |-> lang]]

\* group_by(language, ResponseId): the distinct keys of the frame
LangGroupKeys(df) == {<<df[i].language, df[i].ResponseId>> : i \in DOMAIN df}

LangGroupRows(df, k) ==
    SelectSeq(df, LAMBDA r : r.language = k[1] /\ r.ResponseId = k[2])

\* summarise() orders the groups by language ("Dutch" before "English"),
\* then by ResponseId
LangKeyLeq(a, b) ==
    \/ a[1] = "Dutch" /\ b[1] = "English"
    \/ a[1] = b[1] /\ a[2] <= b[2]

RECURSIVE SortedLangKeys(_)
SortedLangKeys(S) ==
    IF S = {} THEN <<>>
    ELSE LET m == CHOOSE x \in S : \A y \in S : LangKeyLeq(x, y)
         IN  <<m>> \o SortedLangKeys(S \ {m})

\* basic_agreement_results <- df_combined %>% group_by(language, ResponseId)
\*   %>% summarise(calculate_basic_agreement_simplified(rater1, rater2))
basic_agreement(df) ==
    LET keys == SortedLangKeys(LangGroupKeys(df))
    IN  [j \in DOMAIN keys |->
            LET g == LangGroupRows(df, keys[j])
                m == calculate_basic_agreement_simplified(
                         Col(g, "rater1"), Col(g, "rater2"))
            IN  [language |-> keys[j][1], ResponseId |-> keys[j][2],
                 raw_agreement |-> m.raw_agreement,
                 bias_index |-> m.bias_index]]

\* one row of the human notebook's calculate_all_metrics.  (sample_size is
\* the result of kappaSize.ac1, which the repository does not define; the
\* model leaves the column out.)
H_all_metrics_row(k, g) ==
    LET r1 == H_binarize(Col(g, "rater1"))
        r2 == H_binarize(Col(g, "rater2"))
    IN  [ResponseId |-> k,
         prevalence |-> RDiv(RAdd(mean(r1), mean(r2)), RInt(2)),
         gwet_ac1 |-> gwet_ac1_raw(r1, r2)]

\* calculate_all_metrics <- function(df, group_var), human notebook
H_calculate_all_metrics(df, group_var) ==
    LET keys == SortedKeys(GroupKeys(df, group_var))
    IN  [j \in DOMAIN keys |->
            H_all_metrics_row(keys[j], GroupRows(df, group_var, keys[j]))]

-----------------------------------------------------------------------------
(* The sheets.                                                             *)

\* a row of a human notebook sheet after rename() and as.numeric()
HumanRows ==
    [ResponseId : ResponseIds, rater1 : SurveyRatings, rater2 : SurveyRatings]

\* a row of an llm notebook sheet
JudgedRows ==
    [ResponseId : ResponseIds, rater1 : JudgedRatings, rater2 : JudgedRatings,
     LLM_judge_openai : JudgedRatings, LLM_judge_claude : JudgedRatings]

\* A sheet is drawn up to the order of its rows: one frame for every
\* multiset of rows, its rows in ascending RowCode order.  The ResponseId
\* is the least significant part of the code, so that the rows of one
\* group are in general not adjacent.
RowCode(r) ==
    LET judges == IF "LLM_judge_openai" \in DOMAIN r
                  THEN r.LLM_judge_openai * 6 + r.LLM_judge_claude
                  ELSE 0
    IN  ((judges * 6 + r.rater1) * 6 + r.rater2) * 3
            + r.ResponseId

\* the frames of at most n rows
Frames(Rows, n) ==
    UNION {{f \in [1..k -> Rows] :
              \A i \in 1..(k - 1) : RowCode(f[i]) <= RowCode(f[i + 1])} :
           k \in 0..n}

cmpIdle == cmp_in = <<>> /\ cmp_out = <<>>
binIdle == bin_in = <<>> /\ bin_out = [human |-> <<>>, llm |-> <<>>]
pipeIdle ==
    /\ nb = "none"
    /\ pc = "done"
    /\ df_dutch = <<>>
    /\ df_english = <<>>
    /\ df_combined = <<>>
    /\ results_dutch = <<>>
    /\ results_combined = <<>>
    /\ basic_agreement_results = <<>>
    /\ rationale_table = <<>>
    /\ results_english = <<>>

callIdle == call_fn = "none" /\ call_args = <<>> /\ call_ret = <<>>
agentIdle ==
    /\ agent_pc = "idle"
    /\ example = <<>>
    /\ stdout = <<>>
    /\ messages = [type |-> "list", str |-> "", list |-> <<>>]
    /\ response = <<>>
    /\ model_calls = 0
    /\ ret = <<>>
expIdle ==
    /\ dataset = <<>>
    /\ exp_pc = "idle"
    /\ exp_outputs = <<>>
    /\ exp_scores = <<>>
    /\ classify_calls = 0
\* nothing but the notebooks' cells running
othersIdle == callIdle /\ agentIdle /\ expIdle

\* the state after read_excel(), rename() and as.numeric()
InitHuman ==
    /\ nb = "human"
    /\ pc = "h_all_metrics"
    /\ df_dutch \in Frames(HumanRows, MaxRows)
    /\ df_english \in Frames(HumanRows, MaxRows - Len(df_dutch))

InitLLM ==
    /\ nb = "llm"
    /\ pc = "all_metrics"
    /\ df_dutch \in Frames(JudgedRows, MaxItems)
    /\ df_english \in Frames(JudgedRows, MaxItems - Len(df_dutch))

\* no cell has run yet
InitResults ==
    /\ df_combined = <<>>
    /\ results_dutch = <<>>
    /\ results_combined = <<>>
    /\ basic_agreement_results = <<>>
    /\ rationale_table = <<>>
    /\ results_english = <<>>
    /\ cmpIdle
    /\ binIdle
    /\ othersIdle

Init ==
    /\ InitHuman \/ InitLLM
    /\ InitResults

-----------------------------------------------------------------------------
(* The cells of the human notebook.                                        *)

\* cell 418: df_combined and results_combined
H_CombinedMetricsCell ==
    /\ nb = "human"
    /\ pc = "h_all_metrics"
    /\ df_dutch' = mutate_language(df_dutch, "Dutch")
    /\ df_english' = mutate_language(df_english, "English")
    /\ df_combined' = df_dutch' \o df_english'
    /\ results_combined' = H_calculate_all_metrics(df_combined', "ResponseId")
    /\ pc' = "h_basic_agreement"
    /\ UNCHANGED <<nb, results_english, results_dutch, basic_agreement_results, rationale_table>>
    /\ UNCHANGED <<cmpVars, binVars, callVars, agentVars, expVars>>

\* cell 421: basic_agreement_results
H_BasicAgreementCell ==
    /\ nb = "human"
    /\ pc = "h_basic_agreement"
    /\ basic_agreement_results' = basic_agreement(df_combined)
    /\ pc' = "done"
    /\ UNCHANGED <<nb, results_english, df_dutch, df_english, df_combined, results_dutch,
                   results_combined, rationale_table>>
    /\ UNCHANGED <<cmpVars, binVars, callVars, agentVars, expVars>>

(* The cells of the llm notebook.  The cells of section 2 apply the same   *)
(* functions to df_english as these do to df_dutch.                        *)

\* cell 158: results_dutch <- calculate_all_metrics(df_dutch, "ResponseId")
AllMetricsCell ==
    /\ nb = "llm"
    /\ pc = "all_metrics"
    /\ results_dutch' = calculate_all_metrics(df_dutch, "ResponseId")
    /\ pc' = "ac1_metrics"
    /\ UNCHANGED <<nb, results_english, df_dutch, df_english, df_combined, results_combined,
                   basic_agreement_results, rationale_table>>
    /\ UNCHANGED <<cmpVars, binVars, callVars, agentVars, expVars>>

\* cell 164: results_dutch <- calculate_ac1_metrics(df_dutch, "ResponseId")
Ac1MetricsCell ==
    /\ nb = "llm"
    /\ pc = "ac1_metrics"
    /\ results_dutch' = calculate_ac1_metrics(df_dutch, "ResponseId")
    /\ pc' = "tables"
    /\ UNCHANGED <<nb, results_english, df_dutch, df_english, df_combined, results_combined,
                   basic_agreement_results, rationale_table>>
    /\ UNCHANGED <<cmpVars, binVars, callVars, agentVars, expVars>>

\* cell 167: the three tables; the third is the decision rationale table
TablesCell ==
    /\ nb = "llm"
    /\ pc = "tables"
    /\ rationale_table' =
           [j \in DOMAIN results_dutch |-> rationale_row(results_dutch[j])]
    /\ pc' = "english"
    /\ UNCHANGED <<nb, results_english, df_dutch, df_english, df_combined, results_dutch,
                   results_combined, basic_agreement_results>>
    /\ UNCHANGED <<cmpVars, binVars, callVars, agentVars, expVars>>

\* cell 170: results_english <- calculate_ac1_metrics(df_english, "ResponseId")
EnglishCell ==
    /\ nb = "llm"
    /\ pc = "english"
    /\ results_english' = calculate_ac1_metrics(df_english, "ResponseId")
    /\ pc' = "combined"
    /\ UNCHANGED <<nb, df_dutch, df_english, df_combined, results_dutch,
                   results_combined, basic_agreement_results, rationale_table>>
    /\ UNCHANGED <<cmpVars, binVars, callVars, agentVars, expVars>>

\* the raw agreement a summary holds for ResponseId k; missing if it has no
\* such row
raw_agreement_of(res, k) ==
    IF \E j \in DOMAIN res : res[j].ResponseId = k
    THEN (CHOOSE row \in {res[j] : j \in DOMAIN res} :
              row.ResponseId = k).raw_agreement_humans
    ELSE NA_real

\* the pooled raw agreement taken as the mean of the two languages' values
CombinedCell_mean_of_languages ==
    /\ nb = "llm"
    /\ pc = "combined"
    /\ df_combined' = df_dutch \o df_english
    /\ results_combined' =
           LET pooled == calculate_ac1_metrics(df_combined', "ResponseId")
           IN  [j \in DOMAIN pooled |->
                   [pooled[j] EXCEPT !.raw_agreement_humans =
                       mean_num_na_rm(<<
                           raw_agreement_of(results_dutch, pooled[j].ResponseId),
                           raw_agreement_of(results_english,
                                            pooled[j].ResponseId)>>)]]
    /\ pc' = "done"
    /\ UNCHANGED <<nb, results_english, df_dutch, df_english, results_dutch,
                   basic_agreement_results, rationale_table>>
    /\ UNCHANGED <<cmpVars, binVars, callVars, agentVars, expVars>>

\* cell 153: df_combined and results_combined
CombinedCell ==
    /\ nb = "llm"
    /\ pc = "combined"
    /\ df_combined' = df_dutch \o df_english
    /\ results_combined' = calculate_ac1_metrics(df_combined', "ResponseId")
    /\ pc' = "done"
    /\ UNCHANGED <<nb, results_english, df_dutch, df_english, results_dutch,
                   basic_agreement_results, rationale_table>>
    /\ UNCHANGED <<cmpVars, binVars, callVars, agentVars, expVars>>

Next ==
    \/ H_CombinedMetricsCell
    \/ H_BasicAgreementCell
    \/ AllMetricsCell
    \/ Ac1MetricsCell
    \/ TablesCell
    \/ EnglishCell
    \/ CombinedCell

Spec == Init /\ [][Next]_vars

-----------------------------------------------------------------------------
(* The llm notebook on larger sheets, for the pooled analysis: both judges  *)
(* accept every item, the human ratings vary.                              *)

PoolRows ==
    [ResponseId : ResponseIds, rater1 : JudgedRatings, rater2 : JudgedRatings,
     LLM_judge_openai : {3}, LLM_judge_claude : {3}]

InitPool ==
    /\ nb = "llm"
    /\ pc = "all_metrics"
    /\ df_dutch \in Frames(PoolRows, MaxPool)
    /\ df_english \in Frames(PoolRows, MaxPool - Len(df_dutch))
    /\ InitResults

NextPool ==
    \/ AllMetricsCell
    \/ Ac1MetricsCell
    \/ TablesCell
    \/ EnglishCell
    \/ CombinedCell

SpecPool == InitPool /\ [][NextPool]_vars

-----------------------------------------------------------------------------
(* Evaluation pipeline notebook: testing_eval_pipeline.ipynb (python).     *)
(* An optional value is a sequence: None is <<>>, another value v is <<v>>.*)

None == <<>>
Some(v) == <<v>>

\* dict.get(key): the value, None for a key the dict does not have
dict_get(d, key) == IF key \in DOMAIN d THEN Some(d[key]) ELSE None

\* job listings of experiment_example_data
Listings == {"Software Engineer - Join our dynamic team",
             "Data Scientist - Looking for an experienced data scientist"}

\* the labels llm_classify gives under rails = ["clear", "unclear"]
Labels == {"clear", "unclear"}

\* the guard on a missing output left out: the classifier called every time
evaluate_clarity_unguarded(output, input, label) ==
    [score |-> label = "clear", classified |-> TRUE]

\* def evaluate_clarity(output, input), label being the label llm_classify
\* answers with if it is called: the score returned, and whether
\* llm_classify was called
evaluate_clarity(output, input, label) ==
    IF output = None THEN [score |-> FALSE, classified |-> FALSE]
    ELSE [score |-> label = "clear", classified |-> TRUE]

\* a message dict; tool_calls is the number of the message's tool calls (0
\* for none)
Msg(role, content, tool_calls) ==
    [role |-> role, content |-> content, tool_calls |-> tool_calls]

\* the value of run_agent's variable messages: a str or a list of messages
PyStr(t) == [type |-> "str", str |-> t, list |-> <<>>]
PyList(l) == [type |-> "list", str |-> "", list |-> l]

system_prompt ==
    Msg("system", Some("You are a helpful assistant that can answer questions"), 0)

\* handle_tool_calls(tool_calls, messages): the conversation with the result
\* of every tool call appended
handle_tool_calls(tool_calls, msgs) ==
    msgs \o [i \in 1..tool_calls |-> Msg("tool", Some("tool result"), 0)]

\* messages a caller may hand to run_agent
InputMessages ==
    {Msg("user", Some(t), 0) : t \in Listings}
        \cup {Msg("system", Some("You are a recruiter"), 0)}

\* run_agent_task(example) is called, or run_agent(messages) with a str or a
\* list of messages
InitAgent ==
    /\ \/ /\ example \in {Some([job_listing |-> t]) : t \in Listings}
          /\ agent_pc = "task_start"
          /\ messages = PyList(<<>>)
       \/ /\ example = None
          /\ agent_pc = "agent_setup"
          /\ messages \in {PyStr(t) : t \in Listings}
                 \cup {PyList(l) : l \in UNION {[1..n -> InputMessages] :
                                                    n \in 0..MaxInput}}
    /\ stdout = <<>>
    /\ response = None
    /\ model_calls = 0
    /\ ret = None
    /\ pipeIdle
    /\ cmpIdle
    /\ binIdle
    /\ callIdle
    /\ expIdle

\* run_agent_task: print(...), messages = [...], then the call of run_agent
TaskStart ==
    /\ agent_pc = "task_start"
    /\ stdout' = Append(stdout, dict_get(example[1], "job_listing"))
    /\ messages' = PyList(<<Msg("user", dict_get(example[1], "question"), 0)>>)
    /\ agent_pc' = "agent_setup"
    /\ UNCHANGED <<example, response, model_calls, ret>>
    /\ UNCHANGED <<pipeVars, cmpVars, binVars, callVars, expVars>>

\* the system prompt appended whatever the conversation holds
AgentSetup_always_adds ==
    /\ agent_pc = "agent_setup"
    /\ LET listed == IF messages.type = "str"
                     THEN <<Msg("user", Some(messages.str), 0)>>
                     ELSE messages.list
       IN  messages' = PyList(Append(listed, system_prompt))
    /\ agent_pc' = "router"
    /\ UNCHANGED <<example, stdout, response, model_calls, ret>>
    /\ UNCHANGED <<pipeVars, cmpVars, binVars, callVars, expVars>>

\* run_agent: a str becomes a one-message list; the system prompt is
\* appended to a list without a system message
AgentSetup ==
    /\ agent_pc = "agent_setup"
    /\ LET listed == IF messages.type = "str"
                     THEN <<Msg("user", Some(messages.str), 0)>>
                     ELSE messages.list
       IN  messages' =
               IF \E i \in DOMAIN listed : listed[i].role = "system"
               THEN PyList(listed)
               ELSE PyList(Append(listed, system_prompt))
    /\ agent_pc' = "router"
    /\ UNCHANGED <<example, stdout, response, model_calls, ret>>
    /\ UNCHANGED <<pipeVars, cmpVars, binVars, callVars, expVars>>

\* while True: response = client.chat.completions.create(...); the model
\* answers with a message that carries n tool calls
ModelCall ==
    /\ agent_pc = "router"
    /\ model_calls < MaxCalls
    /\ \E n \in 0..MaxToolCalls :
           response' = Some(Msg("assistant",
                                IF n = 0 THEN Some("final answer") ELSE None,
                                n))
    /\ model_calls' = model_calls + 1
    /\ agent_pc' = "append"
    /\ UNCHANGED <<example, stdout, messages, ret>>
    /\ UNCHANGED <<pipeVars, cmpVars, binVars, callVars, expVars>>

\* the loop left after every response, with or without tool calls
AppendResponse_always_returns ==
    /\ agent_pc = "append"
    /\ messages' = PyList(Append(messages.list, response[1]))
    /\ agent_pc' = "return"
    /\ UNCHANGED <<example, stdout, response, model_calls, ret>>
    /\ UNCHANGED <<pipeVars, cmpVars, binVars, callVars, expVars>>

\* a response without tool calls not appended before the return
AppendResponse_final_not_appended ==
    /\ agent_pc = "append"
    /\ messages' = IF response[1].tool_calls > 0
                   THEN PyList(Append(messages.list, response[1]))
                   ELSE messages
    /\ agent_pc' = IF response[1].tool_calls > 0 THEN "tools" ELSE "return"
    /\ UNCHANGED <<example, stdout, response, model_calls, ret>>
    /\ UNCHANGED <<pipeVars, cmpVars, binVars, callVars, expVars>>

\* messages.append(response.choices[0].message.model_dump()); if tool_calls
AppendResponse ==
    /\ agent_pc = "append"
    /\ messages' = PyList(Append(messages.list, response[1]))
    /\ agent_pc' = IF response[1].tool_calls > 0 THEN "tools" ELSE "return"
    /\ UNCHANGED <<example, stdout, response, model_calls, ret>>
    /\ UNCHANGED <<pipeVars, cmpVars, binVars, callVars, expVars>>

\* messages = handle_tool_calls(tool_calls, messages), and the next iteration
HandleToolCalls ==
    /\ agent_pc = "tools"
    /\ messages' = PyList(handle_tool_calls(response[1].tool_calls,
                                            messages.list))
    /\ agent_pc' = "router"
    /\ UNCHANGED <<example, stdout, response, model_calls, ret>>
    /\ UNCHANGED <<pipeVars, cmpVars, binVars, callVars, expVars>>

\* else: return messages
ReturnMessages ==
    /\ agent_pc = "return"
    /\ ret' = Some(messages.list)
    /\ agent_pc' = IF example = None THEN "done" ELSE "task_return"
    /\ UNCHANGED <<example, stdout, messages, response, model_calls>>
    /\ UNCHANGED <<pipeVars, cmpVars, binVars, callVars, expVars>>

\* run_agent_task: return process_messages(ret)
TaskReturn ==
    /\ agent_pc = "task_return"
    /\ agent_pc' = "done"
    /\ UNCHANGED <<example, stdout, messages, response, model_calls, ret>>
    /\ UNCHANGED <<pipeVars, cmpVars, binVars, callVars, expVars>>

NextAgent ==
    \/ TaskStart
    \/ AgentSetup
    \/ ModelCall
    \/ AppendResponse
    \/ HandleToolCalls
    \/ ReturnMessages
    \/ TaskReturn

SpecAgent == InitAgent /\ [][NextAgent]_vars

\* the interpreter runs the next statement as long as there is one
SpecAgentFair == SpecAgent /\ WF_vars(NextAgent)

\* upload_dataset(..., input_keys = ["job_listing"]): the examples' inputs
InitExp ==
    /\ dataset \in UNION {[1..n -> [job_listing : Listings]] :
                              n \in 1..MaxExamples}
    /\ exp_pc = "tasks"
    /\ exp_outputs = <<>>
    /\ exp_scores = <<>>
    /\ classify_calls = 0
    /\ pipeIdle
    /\ cmpIdle
    /\ binIdle
    /\ callIdle
    /\ agentIdle

\* run_experiment, tasks: the task of the next example raises and its run
\* is recorded with the error and no output
TaskFails ==
    /\ exp_pc = "tasks"
    /\ exp_outputs' = Append(exp_outputs, None)
    /\ exp_pc' = IF Len(exp_outputs') = Len(dataset) THEN "evaluations"
                 ELSE "tasks"
    /\ UNCHANGED <<dataset, exp_scores, classify_calls>>
    /\ UNCHANGED <<pipeVars, cmpVars, binVars, callVars, agentVars>>

\* run_experiment, tasks: the task of the next example returns an output
TaskReturns ==
    /\ exp_pc = "tasks"
    /\ \E text \in Listings :
           exp_outputs' = Append(exp_outputs, Some([final_output |-> text]))
    /\ exp_pc' = IF Len(exp_outputs') = Len(dataset) THEN "evaluations"
                 ELSE "tasks"
    /\ UNCHANGED <<dataset, exp_scores, classify_calls>>
    /\ UNCHANGED <<pipeVars, cmpVars, binVars, callVars, agentVars>>

\* run_experiment, evaluations: evaluate_clarity on the next run
EvaluateRun ==
    /\ exp_pc = "evaluations"
    /\ LET i == Len(exp_scores) + 1
       IN  \E label \in Labels :
               LET r == evaluate_clarity(exp_outputs[i], dataset[i], label)
               IN  /\ exp_scores' = Append(exp_scores, r.score)
                   /\ classify_calls' = IF r.classified
                                        THEN classify_calls + 1
                                        ELSE classify_calls
    /\ exp_pc' = IF Len(exp_scores') = Len(dataset) THEN "done"
                 ELSE "evaluations"
    /\ UNCHANGED <<dataset, exp_outputs>>
    /\ UNCHANGED <<pipeVars, cmpVars, binVars, callVars, agentVars>>

NextExp == TaskFails \/ TaskReturns \/ EvaluateRun

SpecExp == InitExp /\ [][NextExp]_vars

-----------------------------------------------------------------------------
(* Sample size notebook: fleiss_kappa_sample_size (python).  A float is an  *)
(* exact fraction, inf is <<1, 0>> and nan is <<0, 0>>.  A call returns     *)
(* [error |-> "none", value |-> v] or raises: [error |-> the exception].    *)

Return(v) == [error |-> "none", value |-> v]
Raise(exc) == [error |-> exc, value |-> 0]
float_inf == <<1, 0>>
float_nan == <<0, 0>>

\* scipy.stats.norm.ppf at the probabilities the model uses, to the two
\* decimals of the standard normal table: z(0.975) = 1.96, z(0.95) = 1.64,
\* z(0.9) = 1.28, z(0.8) = 0.84
norm_ppf(q) ==
    CASE q = <<39, 40>> -> <<49, 25>>
      [] q = <<19, 20>> -> <<41, 25>>
      [] q = <<9, 10>> -> <<32, 25>>
      [] q = <<4, 5>> -> <<21, 25>>

\* a division by zero giving 0 (a guard the function does not have)
np_div_zero_guard(x, y) ==
    IF y[1] = 0 THEN RInt(0) ELSE RDiv(x, y)

\* numpy.float64 / float: x / 0 is inf (nan for 0 / 0) with a warning, no
\* exception
np_div(x, y) ==
    IF y[1] = 0 THEN (IF x[1] = 0 THEN float_nan ELSE float_inf)
    ELSE RDiv(x, y)

\* the fraction cut off towards minus infinity
np_floor(x) ==
    IF x[2] = 0 THEN x ELSE RInt(x[1] \div x[2])

\* np.ceil: the smallest integer not less than x; inf and nan stay
np_ceil(x) ==
    IF x[2] = 0 THEN x ELSE RInt(-((-x[1]) \div x[2]))

\* int() of an integer-valued float
py_int(x) ==
    IF x = float_nan THEN Raise("ValueError")
    ELSE IF x[2] = 0 THEN Raise("OverflowError")
    ELSE Return(x[1])

\* def fleiss_kappa_sample_size(kappa_0, kappa_1, n_raters, p, alpha, power)
fleiss_kappa_sample_size(kappa_0, kappa_1, n_raters, p, alpha, power) ==
    LET one == RInt(1)
        pe == RAdd(RMul(p, p), RMul(RSub(one, p), RSub(one, p)))
        po == RAdd(pe, RMul(kappa_0, RSub(one, pe)))
        var_num == RMul(RInt(2),
                       RAdd(RMul(po, RSub(one, po)),
                            RMul(RInt(n_raters - 1),
                                 RSub(RMul(pe, RSub(one, pe)),
                                      RMul(RSub(po, pe), RSub(po, pe))))))
        var_den == RMul(RInt(n_raters * (n_raters - 1)),
                       RMul(RSub(one, pe), RSub(one, pe)))
    IN  \* float / float: a zero divisor raises
        IF var_den[1] = 0 THEN Raise("ZeroDivisionError")
        ELSE LET var_kappa_0 == RDiv(var_num, var_den)
                 z_alpha == norm_ppf(RSub(one, RDiv(alpha, RInt(2))))
                 z_beta == norm_ppf(power)
                 n == np_div(RMul(RMul(RAdd(z_alpha, z_beta),
                                       RAdd(z_alpha, z_beta)), var_kappa_0),
                             RMul(RSub(kappa_1, kappa_0),
                                  RSub(kappa_1, kappa_0)))
             IN  py_int(np_ceil(n))

\* the kappas, prevalences, levels and powers of the model
Kappas == {Rat(0, 1), Rat(3, 10), Rat(7, 10)}
Prevalences == {Rat(1, 2), Rat(1, 4)}
Alphas == {Rat(1, 20), Rat(1, 10)}
Powers == {Rat(4, 5), Rat(9, 10)}

InitFleiss ==
    /\ call_fn = "fleiss_kappa_sample_size"
    /\ call_args \in {<<a>> : a \in [kappa_0 : Kappas, kappa_1 : Kappas,
                                      n_raters : 1..MaxRaters, p : Prevalences,
                                      alpha : Alphas, power : Powers]}
    /\ call_ret = <<>>
    /\ pipeIdle
    /\ cmpIdle
    /\ binIdle
    /\ agentIdle
    /\ expIdle

\* n_required = fleiss_kappa_sample_size(...)
FleissCell ==
    /\ call_fn = "fleiss_kappa_sample_size"
    /\ call_ret = <<>>
    /\ LET a == call_args[1]
       IN  call_ret' = <<fleiss_kappa_sample_size(a.kappa_0, a.kappa_1,
                             a.n_raters, a.p, a.alpha, a.power)>>
    /\ UNCHANGED <<call_fn, call_args, pipeVars, cmpVars, binVars, agentVars,
                   expVars>>

NextFleiss == FleissCell

SpecFleiss == InitFleiss /\ [][NextFleiss]_vars

-----------------------------------------------------------------------------
(* raw_agreement of the llm notebook applied to two vectors of classes of  *)
(* any two lengths.                                                        *)

\* vectors of at most MaxLen classes, a class being 0, 1 or missing
ClassVectors == UNION {[1..k -> {0, 1, NA_integer}] : k \in 0..MaxLen}

InitRaw ==
    /\ call_fn = "raw_agreement"
    /\ call_args \in [1..2 -> ClassVectors]
    /\ call_ret = <<>>
    /\ pipeIdle
    /\ cmpIdle
    /\ binIdle
    /\ agentIdle
    /\ expIdle

\* raw_agreement(rater1, rater2): R evaluates the body to its value
RawAgreementCell ==
    /\ call_fn = "raw_agreement"
    /\ call_ret = <<>>
    /\ call_ret' = <<Return(raw_agreement(call_args[1], call_args[2]))>>
    /\ UNCHANGED <<call_fn, call_args, pipeVars, cmpVars, binVars, agentVars,
                   expVars>>

NextRaw == RawAgreementCell

SpecRaw == InitRaw /\ [][NextRaw]_vars

-----------------------------------------------------------------------------
(* The human-human agreement of one group of items as the two notebooks    *)
(* compute it: calculate_basic_agreement_simplified of the human notebook, *)
(* raw_agreement_humans and pabak of the llm notebook.                     *)

\* the two rating columns of a group: as many ratings of rater1 as of rater2
InitGroup ==
    /\ call_fn = "human_agreement"
    /\ call_args \in UNION {[1..2 -> [1..k -> SurveyRatings \cup {NA_integer}]] :
                                k \in 1..MaxLen}
    /\ call_ret = <<[human |-> None, llm |-> None, pabak |-> None]>>
    /\ pipeIdle
    /\ cmpIdle
    /\ binIdle
    /\ agentIdle
    /\ expIdle

\* human notebook: calculate_basic_agreement_simplified(rater1, rater2)
HumanAgreementCell ==
    /\ call_fn = "human_agreement"
    /\ call_ret[1].human = None
    /\ call_ret' = <<[call_ret[1] EXCEPT !.human =
           Some(calculate_basic_agreement_simplified(
                    call_args[1], call_args[2]).raw_agreement)]>>
    /\ UNCHANGED <<call_fn, call_args, pipeVars, cmpVars, binVars, agentVars,
                   expVars>>

\* llm notebook, calculate_ac1_metrics: raw_agreement_humans
LlmAgreementCell ==
    /\ call_fn = "human_agreement"
    /\ call_ret[1].llm = None
    /\ call_ret' = <<[call_ret[1] EXCEPT !.llm =
           Some(raw_agreement(binarize(call_args[1]),
                              binarize(call_args[2])))]>>
    /\ UNCHANGED <<call_fn, call_args, pipeVars, cmpVars, binVars, agentVars,
                   expVars>>

\* an agreement the ratings of the frame g give without binarize
pabak_likert(g) ==
    RSub(RMul(RInt(2), mean(VecEq(Col(g, "rater1"), Col(g, "rater2")))),
         RInt(1))

\* llm notebook, calculate_all_metrics: pabak of the rows g of a group
pabak(g) == all_metrics_row(0, g).pabak

\* llm notebook, calculate_all_metrics: pabak
PabakCell ==
    /\ call_fn = "human_agreement"
    /\ call_ret[1].pabak = None
    /\ call_ret' = <<[call_ret[1] EXCEPT !.pabak =
           Some(pabak([i \in DOMAIN call_args[1] |->
                          [rater1 |-> call_args[1][i],
                           rater2 |-> call_args[2][i]]]))]>>
    /\ UNCHANGED <<call_fn, call_args, pipeVars, cmpVars, binVars, agentVars,
                   expVars>>

NextGroup == HumanAgreementCell \/ LlmAgreementCell \/ PabakCell

SpecGroup == InitGroup /\ [][NextGroup]_vars

-----------------------------------------------------------------------------
(* The averages against the humans: cells 158 and 164 of the llm notebook, *)
(* and mean(c(a, b), na.rm = TRUE) as a function of the two pairwise       *)
(* coefficients a and b, each a number of [-1, 1] or missing.              *)

InitAvgCall ==
    /\ call_fn = "mean"
    /\ call_args \in [1..2 -> {Rat(n, CmpDen) : n \in (-CmpDen)..CmpDen}
                                \cup {NA_real}]
    /\ call_ret = <<>>
    /\ pipeIdle
    /\ cmpIdle
    /\ binIdle
    /\ agentIdle
    /\ expIdle

\* the llm notebook before calculate_ac1_metrics, or the call of mean
InitAvg == (InitLLM /\ InitResults) \/ InitAvgCall

\* mean(c(a, b), na.rm = TRUE)
AverageCell ==
    /\ call_fn = "mean"
    /\ call_ret = <<>>
    /\ call_ret' = <<mean_num_na_rm(call_args)>>
    /\ UNCHANGED <<call_fn, call_args, pipeVars, cmpVars, binVars, agentVars,
                   expVars>>

NextAvg == AllMetricsCell \/ Ac1MetricsCell \/ AverageCell

SpecAvg == InitAvg /\ [][NextAvg]_vars

-----------------------------------------------------------------------------
(* The comparator of calculate_ac1_metrics as a function of one row of     *)
(* metrics: the four numbers it reads, each a number of [-1, 1] or missing.*)

CmpValues == {Rat(n, CmpDen) : n \in (-CmpDen)..CmpDen} \cup {NA_real}

InitCmp ==
    /\ cmp_in \in [ac1_openai_vs_average_humans : CmpValues,
                    ac1_claude_vs_average_humans : CmpValues,
                    bias_openai_vs_average_humans : CmpValues,
                    bias_claude_vs_average_humans : CmpValues]
    /\ cmp_out = <<>>
    /\ pipeIdle
    /\ binIdle
    /\ othersIdle

\* the three case_when() columns of summarise(), in the order it evaluates them
CompareCell ==
    /\ cmp_out = <<>>
    /\ LET by_agr == best_llm_by_agreement(
                         cmp_in.ac1_openai_vs_average_humans,
                         cmp_in.ac1_claude_vs_average_humans)
           by_bias == best_llm_by_bias(
                          cmp_in.bias_openai_vs_average_humans,
                          cmp_in.bias_claude_vs_average_humans)
       IN  cmp_out' = <<[best_llm_by_agreement |-> by_agr,
                         best_llm_by_bias |-> by_bias,
                         best_llm_overall |-> best_llm_overall(by_agr, by_bias)]>>
    /\ UNCHANGED <<cmp_in, pipeVars, binVars, callVars, agentVars, expVars>>

NextCmp == CompareCell

SpecCmp == InitCmp /\ [][NextCmp]_vars

-----------------------------------------------------------------------------
(* binarize of either notebook applied to one column of ratings.           *)

InitBin ==
    /\ bin_in \in UNION {[1..k -> Likert \cup {NA_integer}] : k \in 1..MaxLen}
    /\ bin_out = [human |-> <<>>, llm |-> <<>>]
    /\ pipeIdle
    /\ cmpIdle
    /\ othersIdle

BinarizeHuman ==
    /\ bin_out.human = <<>>
    /\ bin_out' = [bin_out EXCEPT !.human = H_binarize(bin_in)]
    /\ UNCHANGED <<bin_in, pipeVars, cmpVars, callVars, agentVars, expVars>>

BinarizeLLM ==
    /\ bin_out.llm = <<>>
    /\ bin_out' = [bin_out EXCEPT !.llm = binarize(bin_in)]
    /\ UNCHANGED <<bin_in, pipeVars, cmpVars, callVars, agentVars, expVars>>

NextBin == BinarizeHuman \/ BinarizeLLM

SpecBin == InitBin /\ [][NextBin]_vars

-----------------------------------------------------------------------------
(* Properties.                                                             *)

Judges == {"OpenAI", "Claude"}
TieLabels == {"Tie", "Tie (both NA)"}

\* C1.  best_llm_overall follows one decision table over the two
\* per-criterion winners: the common judge if both criteria name the same
\* judge; the judge of the other criterion if exactly one criterion is a tie
\* (either tie label); "Tie" if both are ties or the criteria name different
\* judges.  The result is "OpenAI", "Claude" or "Tie", never "Tie (both NA)".
C1_OverallDecisionTable ==
    cmp_out # <<>> =>
        LET a == cmp_out[1].best_llm_by_agreement
            b == cmp_out[1].best_llm_by_bias
            o == cmp_out[1].best_llm_overall
        IN  /\ a \in Judges \cup TieLabels
            /\ b \in Judges \cup TieLabels
            /\ (a \in Judges /\ a = b) => o = a
            /\ (a \in TieLabels /\ b \in Judges) => o = b
            /\ (a \in Judges /\ b \in TieLabels) => o = a
            /\ (a \in TieLabels /\ b \in TieLabels) => o = "Tie"
            /\ (a \in Judges /\ b \in Judges /\ a # b) => o = "Tie"
            /\ o \in {"OpenAI", "Claude", "Tie"}

\* C1 witness: agreement is undecided for want of both values, bias names
\* OpenAI, and OpenAI is the overall winner
C1_Witness ==
    /\ cmp_out # <<>>
    /\ cmp_out[1].best_llm_by_agreement = "Tie (both NA)"
    /\ cmp_out[1].best_llm_by_bias = "OpenAI"
    /\ cmp_out[1].best_llm_overall = "OpenAI"

\* C2.  binarize maps a rating x of the Likert scale to 1 exactly when
\* x >= 3 and to 0 exactly when x < 3, nothing else, and the two notebooks'
\* binarize give the same class to every rating.
C2_BinarizeThreshold ==
    \A i \in DOMAIN bin_in :
        bin_in[i] \in Likert =>
            /\ bin_out.human # <<>> =>
                   /\ bin_out.human[i] \in {0, 1}
                   /\ bin_out.human[i] = 1 <=> bin_in[i] >= 3
                   /\ bin_out.human[i] = 0 <=> bin_in[i] < 3
            /\ bin_out.llm # <<>> =>
                   /\ bin_out.llm[i] \in {0, 1}
                   /\ bin_out.llm[i] = 1 <=> bin_in[i] >= 3
                   /\ bin_out.llm[i] = 0 <=> bin_in[i] < 3
            /\ (bin_out.human # <<>> /\ bin_out.llm # <<>>) =>
                   bin_out.human[i] = bin_out.llm[i]

\* C2 witness: both notebooks have binarized a column holding the ratings
\* on either side of the threshold
C2_Witness ==
    /\ bin_out.human # <<>>
    /\ bin_out.llm # <<>>
    /\ \E i, j \in DOMAIN bin_in :
           /\ bin_in[i] = 3 /\ bin_out.human[i] = 1 /\ bin_out.llm[i] = 1
           /\ bin_in[j] = 2 /\ bin_out.human[j] = 0 /\ bin_out.llm[j] = 0

\* the elements of a sequence
Range(f) == {f[i] : i \in DOMAIN f}

\* the rows calculate_ac1_metrics has returned so far in the llm notebook
Ac1Rows ==
    IF nb # "llm" THEN {}
    ELSE (IF pc \in {"tables", "combined", "done"}
          THEN Range(results_dutch) ELSE {})
         \cup (IF pc = "done" THEN Range(results_combined) ELSE {})

\* x < y for two numbers that are present
NumLess(x, y) == x[1] * y[2] < y[1] * x[2]
\* |x| < |y|, by the squares
AbsLess(x, y) == (x[1] * y[2]) * (x[1] * y[2]) < (y[1] * x[2]) * (y[1] * x[2])
Neg(x) == IF is_na(x) THEN x ELSE <<-x[1], x[2]>>

\* C3.  When neither AC1 value is missing, best_llm_by_agreement names the
\* judge whose AC1 against the humans is strictly greater, and is "Tie"
\* exactly when the two values are equal.
C3_AgreementWinner ==
    \A r \in Ac1Rows :
        LET x == r.ac1_openai_vs_average_humans
            y == r.ac1_claude_vs_average_humans
        IN  (~is_na(x) /\ ~is_na(y)) =>
                /\ r.best_llm_by_agreement = "OpenAI" <=> NumLess(y, x)
                /\ r.best_llm_by_agreement = "Claude" <=> NumLess(x, y)
                /\ r.best_llm_by_agreement = "Tie" <=> x = y

\* C3 witness: a group in which Claude's AC1 is the greater one and Claude
\* is named
C3_Witness ==
    \E r \in Ac1Rows :
        /\ NumLess(r.ac1_openai_vs_average_humans,
                   r.ac1_claude_vs_average_humans)
        /\ r.best_llm_by_agreement = "Claude"

\* C4.  When neither bias is missing, best_llm_by_bias names the judge whose
\* bias has the strictly smaller absolute value and is "Tie" exactly when
\* the absolute values are equal; negating either bias leaves it unchanged.
C4_BiasWinner ==
    cmp_out # <<>> =>
        LET x == cmp_in.bias_openai_vs_average_humans
            y == cmp_in.bias_claude_vs_average_humans
            w == cmp_out[1].best_llm_by_bias
        IN  (~is_na(x) /\ ~is_na(y)) =>
                /\ w = "OpenAI" <=> AbsLess(x, y)
                /\ w = "Claude" <=> AbsLess(y, x)
                /\ w = "Tie" <=> (~AbsLess(x, y) /\ ~AbsLess(y, x))
                /\ best_llm_by_bias(Neg(x), y) = w
                /\ best_llm_by_bias(x, Neg(y)) = w
                /\ best_llm_by_bias(Neg(x), Neg(y)) = w

\* C4 witness: OpenAI's bias is negative and the smaller one in absolute
\* value, Claude's is positive, and OpenAI is named
C4_Witness ==
    /\ cmp_out # <<>>
    /\ cmp_in.bias_openai_vs_average_humans = <<-1, 2>>
    /\ cmp_in.bias_claude_vs_average_humans = <<1, 1>>
    /\ cmp_out[1].best_llm_by_bias = "OpenAI"

\* the printed rows of the decision rationale table
RationaleRows == IF nb = "llm" THEN Range(rationale_table) ELSE {}

\* C5.  In every row of the decision rationale table the Agreement Winner is
\* the judge whose printed raw agreement with the humans is larger, and is
\* "Tie" when the two printed raw agreements are equal.
C5_WinnerByRawAgreement ==
    \A row \in RationaleRows :
        LET x == row.OpenAI_Raw_Agreement
            y == row.Claude_Raw_Agreement
        IN  /\ NumLess(y, x) => row.Agreement_Winner = "OpenAI"
            /\ NumLess(x, y) => row.Agreement_Winner = "Claude"
            /\ x = y => row.Agreement_Winner = "Tie"

\* the items of a frame that carry ResponseId k
Items(df, k) == {i \in DOMAIN df : df[i].ResponseId = k}
\* the items of a frame that carry language l and ResponseId k
LangItems(df, l, k) ==
    {i \in DOMAIN df : df[i].language = l /\ df[i].ResponseId = k}
\* a rating is acceptable
Accept(x) == x >= 3
\* the number x equals a / b
IsFraction(x, a, b) == ~is_na(x) /\ x[1] * b = a * x[2]

HumanDone == nb = "human" /\ pc = "done"
LlmAc1Done == nb = "llm" /\ pc \in {"tables", "english", "combined", "done"}

C7_MissingMetric ==
    cmp_out # <<>> =>
        LET ao == cmp_in.ac1_openai_vs_average_humans
            ac == cmp_in.ac1_claude_vs_average_humans
            bo == cmp_in.bias_openai_vs_average_humans
            bc == cmp_in.bias_claude_vs_average_humans
            wa == cmp_out[1].best_llm_by_agreement
            wb == cmp_out[1].best_llm_by_bias
        IN  /\ (ao = NA_real /\ ac # NA_real) => wa = "Claude"
            /\ (ao # NA_real /\ ac = NA_real) => wa = "OpenAI"
            /\ (ao = NA_real /\ ac = NA_real) <=> wa = "Tie (both NA)"
            /\ (ao # NA_real /\ ac # NA_real) => wa \in {"OpenAI", "Claude", "Tie"}
            /\ (bo = NA_real /\ bc # NA_real) => wb = "Claude"
            /\ (bo # NA_real /\ bc = NA_real) => wb = "OpenAI"
            /\ (bo = NA_real /\ bc = NA_real) <=> wb = "Tie (both NA)"
            /\ (bo # NA_real /\ bc # NA_real) => wb \in {"OpenAI", "Claude", "Tie"}

\* C7 witness: OpenAI's AC1 is missing and Claude wins on agreement with the
\* lowest AC1 there is, while Claude's bias is missing and OpenAI wins on
\* bias with the largest
C7_Witness ==
    /\ cmp_out # <<>>
    /\ cmp_in.ac1_openai_vs_average_humans = NA_real
    /\ cmp_in.ac1_claude_vs_average_humans = <<-1, 1>>
    /\ cmp_out[1].best_llm_by_agreement = "Claude"
    /\ cmp_in.bias_claude_vs_average_humans = NA_real
    /\ cmp_in.bias_openai_vs_average_humans = <<1, 1>>
    /\ cmp_out[1].best_llm_by_bias = "OpenAI"

\* the number of items of I whose column col is an acceptable rating
Accepts(df, I, col) == Cardinality({i \in I : Accept(df[i][col])})

\* C8.  The human notebook's bias_index of a group is the absolute
\* difference of the two raters' accept rates: it lies in [0, 1], is the
\* same with rater1 and rater2 exchanged, and is 0 exactly when both raters
\* accept the same number of the group's items.
C8_BiasIndex ==
    HumanDone =>
        \A row \in Range(basic_agreement_results) :
            LET I == LangItems(df_combined, row.language, row.ResponseId)
                a1 == Accepts(df_combined, I, "rater1")
                a2 == Accepts(df_combined, I, "rater2")
                g == LangGroupRows(df_combined, <<row.language, row.ResponseId>>)
                b == row.bias_index
            IN  /\ IsFraction(b, Abs(a1 - a2), Cardinality(I))
                /\ 0 <= b[1] /\ b[1] <= b[2]
                /\ calculate_basic_agreement_simplified(
                       Col(g, "rater2"), Col(g, "rater1")).bias_index = b
                /\ b = <<0, 1>> <=> a1 = a2

\* C8 witness: a group in which rater2 accepts more items than rater1 and
\* the bias index is positive
C8_Witness ==
    /\ HumanDone
    /\ \E row \in Range(basic_agreement_results) :
           LET I == LangItems(df_combined, row.language, row.ResponseId)
           IN  /\ Accepts(df_combined, I, "rater1")
                      < Accepts(df_combined, I, "rater2")
               /\ row.bias_index[1] > 0

\* the bias of a judge against the humans, from the counts of a group
SignedBiasOK(b, I, judge) ==
    LET n == Cardinality(I)
        h1 == Accepts(df_dutch, I, "rater1")
        h2 == Accepts(df_dutch, I, "rater2")
        j == Accepts(df_dutch, I, judge)
    IN  /\ IsFraction(b, h1 + h2 - 2 * j, 2 * n)
        /\ b[1] > 0 <=> 2 * j < h1 + h2
        /\ b[1] < 0 <=> 2 * j > h1 + h2
        /\ b = RDiv(RAdd(RSub(Rat(h1, n), Rat(j, n)),
                         RSub(Rat(h2, n), Rat(j, n))), RInt(2))

\* C9.  In the llm notebook the bias of a judge against the humans is
\* signed: (accept rate of rater1 + accept rate of rater2) / 2 - accept rate
\* of the judge; positive exactly when the judge accepts less often than the
\* two humans on average, negative exactly when more often, and equal to the
\* mean of the two differences rater_i - judge.
C9_SignedBias ==
    LlmAc1Done =>
        \A row \in Range(results_dutch) :
            LET I == Items(df_dutch, row.ResponseId)
            IN  /\ SignedBiasOK(row.bias_openai_vs_average_humans, I,
                                "LLM_judge_openai")
                /\ SignedBiasOK(row.bias_claude_vs_average_humans, I,
                                "LLM_judge_claude")

\* C9 witness: a group in which OpenAI accepts more often than the humans
\* (negative bias) and Claude less often (positive bias)
C9_Witness ==
    /\ LlmAc1Done
    /\ \E row \in Range(results_dutch) :
           /\ row.bias_openai_vs_average_humans[1] < 0
           /\ row.bias_claude_vs_average_humans[1] > 0

\* one row per ResponseId of the frame, each ResponseId of the frame in
\* exactly one row
OneRowPerResponse(res, df) ==
    /\ Len(res) = Cardinality({df[i].ResponseId : i \in DOMAIN df})
    /\ \A j \in DOMAIN res : Items(df, res[j].ResponseId) # {}
    /\ \A i \in DOMAIN df :
           Cardinality({j \in DOMAIN res :
                           res[j].ResponseId = df[i].ResponseId}) = 1

\* one row per language and ResponseId of the frame
OneRowPerLangResponse(res, df) ==
    /\ Len(res) = Cardinality({<<df[i].language, df[i].ResponseId>> :
                                  i \in DOMAIN df})
    /\ \A j \in DOMAIN res :
           LangItems(df, res[j].language, res[j].ResponseId) # {}
    /\ \A i \in DOMAIN df :
           Cardinality({j \in DOMAIN res :
                           /\ res[j].language = df[i].language
                           /\ res[j].ResponseId = df[i].ResponseId}) = 1

\* the prevalence of a row is that of the items I of the frame
PrevalenceOf(row, df, I) ==
    IsFraction(row.prevalence,
               Accepts(df, I, "rater1") + Accepts(df, I, "rater2"),
               2 * Cardinality(I))

\* the share of the items I on which the columns c1 and c2 give one class
SameClassShare(x, df, I, c1, c2) ==
    IsFraction(x,
               Cardinality({i \in I : Accept(df[i][c1]) = Accept(df[i][c2])}),
               Cardinality(I))

\* C10.  calculate_all_metrics (either notebook), calculate_ac1_metrics and
\* the basic agreement summary return exactly one row per distinct value of
\* the grouping key, every item of the frame belongs to exactly one row, and
\* a row's metrics are those of the items that carry its key and of no
\* others.
C10_OneRowPerGroup ==
    /\ (nb = "human" /\ pc \in {"h_basic_agreement", "done"}) =>
           /\ OneRowPerResponse(results_combined, df_combined)
           /\ \A row \in Range(results_combined) :
                  PrevalenceOf(row, df_combined,
                               Items(df_combined, row.ResponseId))
    /\ HumanDone =>
           /\ OneRowPerLangResponse(basic_agreement_results, df_combined)
           /\ \A row \in Range(basic_agreement_results) :
                  SameClassShare(row.raw_agreement, df_combined,
                      LangItems(df_combined, row.language, row.ResponseId),
                      "rater1", "rater2")
    /\ (nb = "llm" /\ pc = "ac1_metrics") =>
           /\ OneRowPerResponse(results_dutch, df_dutch)
           /\ \A row \in Range(results_dutch) :
                  PrevalenceOf(row, df_dutch, Items(df_dutch, row.ResponseId))
    /\ LlmAc1Done =>
           /\ OneRowPerResponse(results_dutch, df_dutch)
           /\ \A row \in Range(results_dutch) :
                  LET I == Items(df_dutch, row.ResponseId)
                  IN  /\ SameClassShare(row.raw_agreement_humans, df_dutch, I,
                                        "rater1", "rater2")
                      /\ SameClassShare(row.raw_agreement_openai_vs_claude,
                                        df_dutch, I, "LLM_judge_openai",
                                        "LLM_judge_claude")

\* C10 witness: three items in three groups by language and ResponseId but
\* two groups by ResponseId, one of these pooling a Dutch and an English item
C10_Witness ==
    /\ HumanDone
    /\ Len(df_combined) = 3
    /\ Len(basic_agreement_results) = 3
    /\ Len(results_combined) = 2
    /\ \E i, j \in DOMAIN df_combined :
           /\ df_combined[i].language # df_combined[j].language
           /\ df_combined[i].ResponseId = df_combined[j].ResponseId

\* the number of the items I of df on which the two human raters give one class
HumansAgree(df, I) ==
    Cardinality({i \in I : Accept(df[i].rater1) = Accept(df[i].rater2)})

\* n times the raw agreement the summary res holds for k; 0 for no items
WeightedAgreement(res, k, n) ==
    IF n = 0 THEN RInt(0)
    ELSE RMul(RInt(n), (CHOOSE row \in Range(res) :
                            row.ResponseId = k).raw_agreement_humans)

LlmDone == nb = "llm" /\ pc = "done"

\* C11.  In the pooled analysis of the llm notebook the group of a
\* ResponseId holds exactly the Dutch and the English items with that
\* ResponseId: its size is the sum of the two per-language sizes, its agreeing
\* items are those of the two languages together, and its raw agreement is
\* the mean of the two per-language raw agreements weighted by their numbers
\* of items.
C11_PooledGroup ==
    LlmDone =>
        \A row \in Range(results_combined) :
            LET k == row.ResponseId
                Id == Items(df_dutch, k)
                Ie == Items(df_english, k)
                Ic == Items(df_combined, k)
                nd == Cardinality(Id)
                ne == Cardinality(Ie)
            IN  /\ Cardinality(Ic) = nd + ne
                /\ \A r \in PoolRows \cup JudgedRows :
                       Cardinality({i \in Ic : df_combined[i] = r})
                           = Cardinality({i \in Id : df_dutch[i] = r})
                             + Cardinality({i \in Ie : df_english[i] = r})
                /\ IsFraction(row.raw_agreement_humans,
                              HumansAgree(df_dutch, Id)
                                  + HumansAgree(df_english, Ie), nd + ne)
                /\ RMul(RInt(nd + ne), row.raw_agreement_humans)
                       = RAdd(WeightedAgreement(results_dutch, k, nd),
                              WeightedAgreement(results_english, k, ne))

\* C11 witness: a ResponseId with two Dutch items and one English item whose
\* pooled raw agreement differs from the mean of the two languages' values
C11_Witness ==
    /\ LlmDone
    /\ \E row \in Range(results_combined) :
           LET k == row.ResponseId
           IN  /\ Cardinality(Items(df_dutch, k)) = 2
               /\ Cardinality(Items(df_english, k)) = 1
               /\ row.raw_agreement_humans
                      # mean_num_na_rm(<<raw_agreement_of(results_dutch, k),
                                        raw_agreement_of(results_english, k)>>)

\* Gwet's AC1 of the columns h and j over the items I of df, from the counts:
\* with n items, s of them classed alike and A accepts among the 2n ratings,
\* pa = s/n, pe = 2 * (A/2n) * (1 - A/2n)
PairAc1(df, I, h, j) ==
    LET n == Cardinality(I)
        s_ == Cardinality({i \in I : Accept(df[i][h]) = Accept(df[i][j])})
        A == Accepts(df, I, h) + Accepts(df, I, j)
    IN  Rat(2 * n * s_ - A * (2 * n - A), 2 * n * n - A * (2 * n - A))

\* the number of the items I on which column j gives the class rater h gives
SameClass(df, I, h, j) ==
    Cardinality({i \in I : Accept(df[i][h]) = Accept(df[i][j])})

\* the two averages of a row are those of the judge's column j
AveragesOf(ac1, raw, df, I, j) ==
    /\ ac1 = RDiv(RAdd(PairAc1(df, I, "rater1", j),
                       PairAc1(df, I, "rater2", j)), RInt(2))
    /\ IsFraction(raw, SameClass(df, I, "rater1", j)
                           + SameClass(df, I, "rater2", j),
                  2 * Cardinality(I))

\* C12.  ac1_X_vs_average_humans and raw_agreement_X_vs_average_humans are
\* the arithmetic mean of the judge's coefficient against rater1 and its
\* coefficient against rater2; where exactly one of the two coefficients is
\* missing the mean is the other one.
C12_MeanOfPairwise ==
    /\ (nb = "llm" /\ pc = "tables") =>
           \A row \in Range(results_dutch) :
               LET I == Items(df_dutch, row.ResponseId)
               IN  /\ AveragesOf(row.ac1_openai_vs_average_humans,
                                 row.raw_agreement_openai_vs_average_humans,
                                 df_dutch, I, "LLM_judge_openai")
                   /\ AveragesOf(row.ac1_claude_vs_average_humans,
                                 row.raw_agreement_claude_vs_average_humans,
                                 df_dutch, I, "LLM_judge_claude")
    /\ (call_fn = "mean" /\ call_ret # <<>>) =>
           LET a == call_args[1]
               b == call_args[2]
               m == call_ret[1]
           IN  /\ (~is_na(a) /\ ~is_na(b)) =>
                      /\ ~is_na(m)
                      /\ 2 * m[1] * a[2] * b[2]
                             = (a[1] * b[2] + b[1] * a[2]) * m[2]
               /\ (is_na(a) /\ ~is_na(b)) => m = b
               /\ (~is_na(a) /\ is_na(b)) => m = a

\* C12 witness: two items on which the humans disagree and OpenAI sides with
\* one of them: the mean of its two raw agreements is 1/2, its agreement
\* with any single averaged human rating would be 0 or 1
C12_Witness ==
    /\ nb = "llm"
    /\ pc = "tables"
    /\ \E row \in Range(results_dutch) :
           /\ Cardinality(Items(df_dutch, row.ResponseId)) = 2
           /\ row.raw_agreement_humans = <<0, 1>>
           /\ row.raw_agreement_openai_vs_average_humans = <<1, 2>>

FleissReturned == call_fn = "fleiss_kappa_sample_size" /\ call_ret # <<>>

\* x <= y for two fractions with positive denominators
RLeq(x, y) == x[1] * y[2] <= y[1] * x[2]

\* (z_{1-alpha/2} + z_power)^2 * Var0 / (kappa_1 - kappa_0)^2, for
\* kappa_1 # kappa_0 and n_raters > 1
FleissBound(a) ==
    LET pe == RAdd(RMul(a.p, a.p),
                   RMul(RSub(RInt(1), a.p), RSub(RInt(1), a.p)))
        po == RAdd(pe, RMul(a.kappa_0, RSub(RInt(1), pe)))
        q_ == RSub(RInt(1), pe)
        inner == RAdd(RMul(po, RSub(RInt(1), po)),
                      RMul(RInt(a.n_raters - 1),
                           RSub(RMul(pe, q_), RMul(RSub(po, pe), RSub(po, pe)))))
        Var0 == RDiv(RMul(RInt(2), inner),
                     RMul(RInt(a.n_raters * (a.n_raters - 1)), RMul(q_, q_)))
        z == RAdd(norm_ppf(RSub(RInt(1), RDiv(a.alpha, RInt(2)))),
                  norm_ppf(a.power))
        d == RSub(a.kappa_1, a.kappa_0)
    IN  RDiv(RMul(RMul(z, z), Var0), RMul(d, d))

\* the call of the notebook: kappa_0 = 0.3, kappa_1 = 0.7, 3 raters, p = 0.5,
\* alpha = 0.05, power = 0.8
RecordedCall ==
    [kappa_0 |-> <<3, 10>>, kappa_1 |-> <<7, 10>>, n_raters |-> 3,
     p |-> <<1, 2>>, alpha |-> <<1, 20>>, power |-> <<4, 5>>]

\* C13.  A sample size fleiss_kappa_sample_size returns is the smallest
\* integer not less than (z_{1-alpha/2} + z_power)^2 * Var0
\* / (kappa_1 - kappa_0)^2; for the call of the notebook it is 45.
C13_SampleSize ==
    (FleissReturned /\ call_ret[1].error = "none") =>
        LET a == call_args[1]
            n == call_ret[1].value
        IN  /\ RLeq(FleissBound(a), RInt(n))
            /\ ~RLeq(FleissBound(a), RInt(n - 1))
            /\ a = RecordedCall => n = 45

\* C13 witness: the call of the notebook has returned
C13_Witness ==
    /\ FleissReturned
    /\ call_args[1] = RecordedCall
    /\ call_ret[1] = Return(45)

\* C15.  With kappa_1 = kappa_0, or with one rater, fleiss_kappa_sample_size
\* returns no sample size: the division by zero ends the call in an error
\* (ZeroDivisionError for one rater; for equal kappas the quotient is inf or
\* nan and int() raises).
C15_DivisionByZero ==
    FleissReturned =>
        LET a == call_args[1]
            r == call_ret[1]
        IN  /\ (a.kappa_1 = a.kappa_0 \/ a.n_raters = 1) => r.error # "none"
            /\ a.n_raters = 1 => r.error = "ZeroDivisionError"
            /\ (a.kappa_1 = a.kappa_0 /\ a.n_raters > 1) =>
                   r.error \in {"OverflowError", "ValueError"}

\* C15 witness: a call with equal kappas and three raters has raised
C15_Witness ==
    /\ FleissReturned
    /\ call_args[1].kappa_1 = call_args[1].kappa_0
    /\ call_args[1].n_raters = 3
    /\ call_ret[1].error = "OverflowError"

\* C14.  Given two rating vectors of different lengths raw_agreement fails
\* with an error and returns no value.
C14_DifferentLengthsFail ==
    (call_fn = "raw_agreement" /\ call_ret # <<>>
         /\ Len(call_args[1]) # Len(call_args[2])) =>
        call_ret[1].error # "none"

\* C16.  evaluate_clarity scores a run without output False and does not
\* call llm_classify for it: the classifier has been called once for every
\* scored run that has an output, and an experiment all of whose tasks failed
\* ends with the score False for every example and no classifier call.
C16_NoOutputScoresFalse ==
    /\ \A i \in DOMAIN exp_scores :
           exp_outputs[i] = None => exp_scores[i] = FALSE
    /\ classify_calls
           = Cardinality({i \in DOMAIN exp_scores : exp_outputs[i] # None})
    /\ (exp_pc = "done" /\ \A i \in DOMAIN exp_outputs : exp_outputs[i] = None)
           => /\ Len(exp_scores) = Len(dataset)
              /\ \A i \in DOMAIN exp_scores : exp_scores[i] = FALSE
              /\ classify_calls = 0

\* C16 witness: the experiment over MaxExamples examples is done, every task
\* has failed and every score is False
C16_Witness ==
    /\ exp_pc = "done"
    /\ Len(dataset) = MaxExamples
    /\ \A i \in DOMAIN exp_outputs : exp_outputs[i] = None
    /\ Len(exp_scores) = MaxExamples
    /\ \A i \in DOMAIN exp_scores : exp_scores[i] = FALSE

\* C17.  The user message run_agent_task hands to run_agent has the
\* job_listing of the example as its content, the text run_agent_task prints
\* after "Starting agent with messages:".
C17_UserMessageIsJobListing ==
    (example # None /\ agent_pc \notin {"idle", "task_start"}) =>
        /\ messages.list[1].role = "user"
        /\ messages.list[1].content = Some(example[1].job_listing)
        /\ messages.list[1].content = stdout[1]

\* the model responses in a conversation
Responses(c) == {i \in DOMAIN c : c[i].role = "assistant"}
\* those without tool calls
FinalResponses(c) == {i \in Responses(c) : c[i].tool_calls = 0}

\* run_agent has returned only if a response without tool calls has come,
\* and then right at the first such response
ReturnsOnlyAtFirstFinal ==
    /\ (\A i \in Responses(messages.list) : messages.list[i].tool_calls > 0)
           => ret = None
    /\ ret # None =>
           /\ Cardinality(FinalResponses(ret[1])) = 1
           /\ Cardinality(Responses(ret[1])) = model_calls
           /\ response[1].tool_calls = 0
           /\ agent_pc \in {"task_return", "done"}

\* C19.  run_agent returns after finitely many model calls if and only if
\* some model response carries no tool calls: as long as every response
\* carries tool calls it has not returned, whatever the number of calls, and
\* a response without tool calls leads to its return with no further call.
C19_ReturnsIffNoToolCalls ==
    /\ []ReturnsOnlyAtFirstFinal
    /\ (response # None /\ response[1].tool_calls = 0) ~> (ret # None)

\* C19 witness: MaxCalls - 1 responses with tool calls, then one without,
\* and run_agent has returned
C19_Witness ==
    /\ ret # None
    /\ model_calls = MaxCalls
    /\ Cardinality(Responses(ret[1])) = MaxCalls
    /\ Cardinality(FinalResponses(ret[1])) = 1

\* the last message of a conversation
Last(c) == c[Len(c)]

\* C20.  The response of an iteration is in the conversation before its tool
\* calls are handled; run_agent returns right after appending a response
\* without tool calls, so the returned conversation ends with that response
\* and every earlier model response in it carries tool calls.
C20_ResponseAppendedFirst ==
    /\ agent_pc = "tools" =>
           /\ Last(messages.list) = response[1]
           /\ response[1].tool_calls > 0
    /\ agent_pc = "return" =>
           /\ Last(messages.list) = response[1]
           /\ response[1].tool_calls = 0
    /\ ret # None =>
           LET c == ret[1]
           IN  /\ Last(c) = response[1]
               /\ Last(c).role = "assistant"
               /\ Last(c).tool_calls = 0
               /\ \A i \in Responses(c) : i < Len(c) => c[i].tool_calls > 0

\* C20 witness: a returned conversation with an earlier response, the
\* results of its tool calls and the final response
C20_Witness ==
    /\ ret # None
    /\ \E i \in Responses(ret[1]) :
           /\ ret[1][i].tool_calls = 2
           /\ ret[1][i + 1].role = "tool"
           /\ ret[1][i + 2].role = "tool"
           /\ i + 3 = Len(ret[1])

\* the group of the harness has no missing rating
GroupComplete ==
    \A c \in 1..2 : \A i \in DOMAIN call_args[c] :
        call_args[c][i] # NA_integer

\* C18.  For a group whose ratings are all present the human notebook's
\* raw_agreement equals the llm notebook's raw_agreement_humans, and pabak
\* equals 2 * raw_agreement_humans - 1.
C18_SameRawAgreement ==
    (call_fn = "human_agreement" /\ GroupComplete) =>
        LET r == call_ret[1]
        IN  /\ (r.human # None /\ r.llm # None) =>
                   /\ r.human = r.llm
                   /\ ~is_na(r.llm[1])
            /\ (r.pabak # None /\ r.llm # None) =>
                   /\ ~is_na(r.pabak[1])
                   /\ r.pabak[1][1] * r.llm[1][2]
                          = (2 * r.llm[1][1] - r.llm[1][2]) * r.pabak[1][2]

\* C18 witness: three items rated 3 and 4, 2 and 4, 2 and 2: both notebooks
\* give the raw agreement 2/3 and pabak is 1/3
C18_Witness ==
    /\ call_fn = "human_agreement"
    /\ call_args = <<(<<3, 2, 2>>), (<<4, 4, 2>>)>>
    /\ call_ret = <<[human |-> Some(<<2, 3>>), llm |-> Some(<<2, 3>>),
                     pabak |-> Some(<<1, 3>>)]>>

\* the messages of a conversation with the role system
SystemMessages(c) == {i \in DOMAIN c : c[i].role = "system"}

\* the system messages of the value handed to run_agent: a str has none
InputSystems(m) ==
    IF m.type = "str" THEN 0 ELSE Cardinality(SystemMessages(m.list))

\* the messages a str or a list hands to run_agent
InputLen(m) == IF m.type = "str" THEN 1 ELSE Len(m.list)

\* the model is called, or has just been called, with messages
AtModelCall == agent_pc \in {"router", "append"}

\* the setup of run_agent adds the default system prompt, once, to an input
\* without a system message and adds nothing to an input that has one
SetupAddsPromptIfNone ==
    agent_pc = "agent_setup" =>
        LET c == messages'.list
        IN  IF InputSystems(messages) = 0
            THEN /\ Len(c) = InputLen(messages) + 1
                 /\ Last(c) = system_prompt
                 /\ SystemMessages(c) = {Len(c)}
            ELSE /\ c = messages.list
                 /\ \A i \in DOMAIN c : c[i] # system_prompt

\* after the setup run_agent neither adds nor removes a system message
LoopKeepsSystemMessages ==
    agent_pc \in {"router", "append", "tools", "return"} =>
        Cardinality(SystemMessages(messages'.list))
            = Cardinality(SystemMessages(messages.list))

====
